---------------------------- MODULE Spec2Model ----------------------------
(***************************************************************************)
(* Grayscale image container and its LZW codec                             *)
(* (src/grayscale_manipulator.py).                                         *)
(*                                                                         *)
(* Python lists are modelled as TLA+ sequences; a Python index k is the    *)
(* TLA+ position k + 1.  Codes are kept 0-based as in the source.  An      *)
(* optional attribute (None / not yet set) is a sequence of length 0, a    *)
(* set attribute a sequence of length 1 holding the value.  A raised       *)
(* exception moves pc to "failed" and records its class in err.            *)
(***************************************************************************)
EXTENDS Integers, Sequences, FiniteSets

\* ------------------------------------------------------------------ bounds
MaxPixel == 1       \* pixel values of the images explored: 0..MaxPixel
MaxLen   == 5       \* images explored have height * width <= MaxLen
MaxCap   == 4       \* small dictionary caps explored besides the real one
MaxDim   == 2       \* heights, widths and matrix sizes of the other inputs
MaxCodes == 3       \* codes in the code block of a stream read from a file
MaxCode  == 2       \* their values: 0..MaxCode

\* self.max_dictionary_size = 2 ** 16
DictionaryCap == 65536

Pixels == 0..MaxPixel

None == << >>
Some(x) == << x >>

\* ------------------------------------------------------ Python list helpers
\* s[a:b] for 0 <= a, 0 <= b (slices clamp to the length and never raise)
Slice(s, a, b) ==
    LET hi == IF b < Len(s) THEN b ELSE Len(s)
    IN  IF a >= hi THEN << >> ELSE SubSeq(s, a + 1, hi)

\* x in lst
Contains(lst, x) == \E j \in 1..Len(lst) : lst[j] = x

\* lst.index(x): first position holding x; -2 stands for the ValueError
\* list.index raises when x is absent (the source itself tests for -1).
Index(lst, x) ==
    IF Contains(lst, x)
    THEN (CHOOSE j \in 1..Len(lst) :
             lst[j] = x /\ \A k \in 1..(j - 1) : lst[k] # x) - 1
    ELSE -2

\* [pixel for row in raw_data for pixel in row]
RECURSIVE Flatten(_)
Flatten(rows) ==
    IF rows = << >> THEN << >> ELSE Head(rows) \o Flatten(Tail(rows))

\* ------------------------------------------------------------ struct codecs
\* struct.pack(">H", n) accepts 0 <= n <= 65535, else struct.error
CanPack16(n) == n >= 0 /\ n < 65536
\* struct.pack(">I", n) accepts 0 <= n <= 2**32 - 1
CanPack32(n) == n >= 0 /\ n \div 65536 < 65536

\* a little-endian pack: the byte order of the format swapped
Pack16LittleEndian(n) == << n % 256, n \div 256 >>

\* struct.pack(">H", n): two bytes, most significant first
Pack16(n) == << n \div 256, n % 256 >>

\* struct.pack(">I", n): four bytes, most significant first
Pack32(n) ==
    << n \div 16777216, (n \div 65536) % 256, (n \div 256) % 256, n % 256 >>

\* struct.unpack(">H", b) needs exactly two bytes, else struct.error
CanUnpack16(b) == Len(b) = 2
Unpack16(b) == b[1] * 256 + b[2]

\* struct.unpack(">I", b) needs exactly four bytes, else struct.error
CanUnpack32(b) == Len(b) = 4
Unpack32(b) == b[1] * 16777216 + b[2] * 65536 + b[3] * 256 + b[4]

\* compressed_bytes += struct.pack(">H", i) for i in compressed
RECURSIVE PackCodes(_)
PackCodes(codes) ==
    IF codes = << >> THEN << >>
    ELSE Pack16(Head(codes)) \o PackCodes(Tail(codes))

\* ------------------------------------------------------------------- state
VARIABLES
    pc,                 \* position of the run
    err,                \* class of the exception raised, "" when none
    enc,                \* the LZW object of lzw_compression
    max_dictionary_size,
    start_dictionary, dictionary, dict_size, i, compressed,   \* compress()
    file,               \* bytes written by lzw_compression / read back
    dec,                \* the LZW object of lzw_decompression
    d_height, d_width, d_compressed, d_dictionary, d_dict_size, d_next,
    prev_i, decompressed,                                     \* decompress()
    matrix,             \* result of to_matrix()
    image,              \* a GrayscaleImage: [nrows, ncols, pixels]
    decoded,            \* the GrayscaleImage lzw_decompression returns
    result              \* outcome of the last GrayscaleImage operation

vars == << pc, err, enc, max_dictionary_size, start_dictionary, dictionary,
           dict_size, i, compressed, file, dec, d_height, d_width,
           d_compressed, d_dictionary, d_dict_size, d_next, prev_i,
           decompressed, matrix, image, decoded, result >>

compress_vars == << start_dictionary, dictionary, dict_size, i, compressed >>
decompress_vars == << d_height, d_width, d_compressed, d_dictionary,
                      d_dict_size, d_next, prev_i, decompressed >>

\* what the last GrayscaleImage operation was given and how it ended
Outcome(op, row, col, value, arg, status, changed) ==
    [ op |-> op, row |-> row, col |-> col, value |-> value, arg |-> arg,
      status |-> status, changed |-> changed ]

\* ------------------------------------------------------------ LZW.__init__
\* LZW(raw_data, None): height, width and the row-major flattening
LZWFromRaw(rows) ==
    [ height          |-> Len(rows),
      width           |-> Len(rows[1]),
      raw_data        |-> Some(Flatten(rows)),
      compressed_data |-> None ]

\* LZW(None, compressed_data): raw_data, height and width stay unset
LZWFromCompressed(data) ==
    [ height          |-> None,
      width           |-> None,
      raw_data        |-> None,
      compressed_data |-> Some(data) ]

\* a start dictionary built from all symbols but the last one
StartDictionariesShort(raw) ==
    LET distinct == { raw[k] : k \in 1..(Len(raw) - 1) }
        n == Cardinality(distinct)
    IN  { s \in [1..n -> distinct] : \A a, b \in 1..n : a # b => s[a] # s[b] }

\* ------------------------------------------------------------ LZW.compress
\* list(set(self.raw_data)): the distinct values, in the iteration order of
\* a set, which the language leaves open: every order is possible.
StartDictionaries(raw) ==
    LET distinct == { raw[k] : k \in 1..Len(raw) }
        n == Cardinality(distinct)
    IN  { s \in [1..n -> distinct] : \A a, b \in 1..n : a # b => s[a] # s[b] }

\* [[pixel] for pixel in start_dictionary]
SeedDictionary(start) == [ k \in 1..Len(start) |-> << start[k] >> ]

\* _find_longest_prefix: the candidate grows one symbol at a time while it
\* is in the dictionary; at the first miss the index of the candidate less
\* its last symbol is returned, at exhaustion the index of the candidate.
RECURSIVE GrowPrefix(_, _, _)
GrowPrefix(dict, sequence, n) ==
    IF n = Len(sequence)
    THEN Index(dict, SubSeq(sequence, 1, n))
    ELSE IF Contains(dict, SubSeq(sequence, 1, n + 1))
         THEN GrowPrefix(dict, sequence, n + 1)
         ELSE Index(dict, SubSeq(sequence, 1, n))

\* a search that settles for the first symbol alone
FindFirstSymbol(dict, sequence) == Index(dict, SubSeq(sequence, 1, 1))

FindLongestPrefix(dict, sequence) == GrowPrefix(dict, sequence, 0)

\* a cursor that moves one symbol short of the matched entry
AdvanceShort(cursor, prefix) == cursor + Len(prefix) - 1

\* i += len(prefix)
Advance(cursor, prefix) == cursor + Len(prefix)

\* an off-by-one cap test: the encoder grows once more at the cap
EncoderMayGrowAtCap(size, cap) == size <= cap

\* dict_size < self.max_dictionary_size (compress, line 204)
EncoderMayGrow(size, cap) == size < cap

\* prefix + [self.raw_data[i]]
EncoderEntry(prefix, raw, cursor) == Append(prefix, raw[cursor + 1])

\* shape_header + start_dict_header + start_dict_bytes
\*   + compressed_header + compressed_bytes
Serialize(h, w, start, codes) ==
    LET compressed_bytes == PackCodes(codes)
    IN  Pack16(h) \o Pack16(w) \o Pack16(Len(start)) \o start
          \o Pack32(Len(compressed_bytes)) \o compressed_bytes

\* every struct.pack and the bytes() call of the serialization succeeds
CanSerialize(h, w, start, codes) ==
    /\ \A k \in 1..Len(start) : start[k] >= 0 /\ start[k] < 256
    /\ \A k \in 1..Len(codes) : CanPack16(codes[k])
    /\ CanPack16(h) /\ CanPack16(w) /\ CanPack16(Len(start))
    /\ CanPack32(2 * Len(codes))

Raw == enc.raw_data[1]
N == Len(Raw)

\* lines 188-194: the guard, the start dictionary, the seed entries, i = 0
CompressBegin ==
    /\ pc = "compress"
    /\ IF enc.raw_data = None
       THEN /\ pc' = "failed" /\ err' = "ValueError"
            /\ UNCHANGED compress_vars
       ELSE \E start \in StartDictionaries(Raw) :
            /\ start_dictionary' = start
            /\ dictionary' = SeedDictionary(start)
            /\ dict_size' = Len(start)
            /\ i' = 0
            /\ compressed' = << >>
            /\ pc' = "compress_loop" /\ err' = err
    /\ UNCHANGED << enc, max_dictionary_size, file, dec, decompress_vars,
                    matrix, image, decoded, result >>

\* lines 195-206: one iteration of the main loop
CompressLoop ==
    /\ pc = "compress_loop"
    /\ i < N
    /\ LET prefix_id == FindLongestPrefix(dictionary, Slice(Raw, i, N))
       IN  IF prefix_id = -2
           THEN /\ pc' = "failed" /\ err' = "ValueError"
                /\ UNCHANGED << dictionary, dict_size, i, compressed >>
           ELSE IF prefix_id = -1
           THEN /\ pc' = "compress_break" /\ err' = err
                /\ UNCHANGED << dictionary, dict_size, i, compressed >>
           ELSE LET prefix == dictionary[prefix_id + 1]
                    cursor == Advance(i, prefix)
                    grow   == cursor < N
                                /\ EncoderMayGrow(dict_size, max_dictionary_size)
                IN  /\ compressed' = Append(compressed, prefix_id)
                    /\ i' = cursor
                    /\ dictionary' =
                          IF grow
                          THEN Append(dictionary, EncoderEntry(prefix, Raw, cursor))
                          ELSE dictionary
                    /\ dict_size' = IF grow THEN dict_size + 1 ELSE dict_size
                    /\ pc' = pc /\ err' = err
    /\ UNCHANGED << enc, max_dictionary_size, start_dictionary, file, dec,
                    decompress_vars, matrix, image, decoded, result >>

\* the loop is left at i >= len(raw_data) or through the break
LoopLeft == IF pc = "compress_loop" THEN i >= N ELSE pc = "compress_break"

\* lines 208-221: the stream is assembled and stored in compressed_data
CompressSerialize ==
    /\ pc \in { "compress_loop", "compress_break" }
    /\ LoopLeft
    /\ IF CanSerialize(enc.height, enc.width, start_dictionary, compressed)
       THEN /\ enc' = [ enc EXCEPT !.compressed_data =
                          Some(Serialize(enc.height, enc.width,
                                         start_dictionary, compressed)) ]
            /\ pc' = "compressed" /\ err' = err
       ELSE /\ pc' = "failed" /\ err' = "struct.error"
            /\ enc' = enc
    /\ UNCHANGED << max_dictionary_size, compress_vars, file, dec,
                    decompress_vars, matrix, image, decoded, result >>

\* lzw_compression, lines 116-119: the stream is written to the file
LzwCompressionWrite ==
    /\ pc = "compressed"
    /\ IF enc.compressed_data = None
       THEN /\ pc' = "failed" /\ err' = "ValueError" /\ file' = file
       ELSE /\ file' = enc.compressed_data[1]
            /\ pc' = "written" /\ err' = err
    /\ UNCHANGED << enc, max_dictionary_size, compress_vars, dec,
                    decompress_vars, matrix, image, decoded, result >>

\* lzw_decompression, lines 134-136: the file is read into a new LZW object
LzwDecompressionRead ==
    /\ pc = "written"
    /\ dec' = LZWFromCompressed(file)
    /\ pc' = "decompress"
    /\ UNCHANGED << err, enc, max_dictionary_size, compress_vars, file,
                    decompress_vars, matrix, image, decoded, result >>

\* ---------------------------------------------------------- LZW.decompress
Data == dec.compressed_data[1]

\* the header fields as lines 251-257 read them
HeightBytes == Slice(Data, 0, 2)
WidthBytes == Slice(Data, 2, 4)
StartDictSizeBytes == Slice(Data, 4, 6)
StartDictSize == Unpack16(StartDictSizeBytes)
StartDict == Slice(Data, 6, 6 + StartDictSize)
CompressedSizeBytes == Slice(Data, 6 + StartDictSize, 10 + StartDictSize)
CompressedSize == Unpack32(CompressedSizeBytes)

\* len(range(10 + S, 10 + S + C, 2))
CodeCount == (CompressedSize + 1) \div 2

\* self.compressed_data[i : i + 2] of the k-th pass (k from 0) of line 259
CodeBytes(k) ==
    Slice(Data, 10 + StartDictSize + 2 * k, 10 + StartDictSize + 2 * k + 2)

\* every struct.unpack of lines 251-260 is given the bytes it needs; the
\* slices of the code block shrink only at the end of the data, so the last
\* one decides for all of them
CanParse ==
    /\ CanUnpack16(HeightBytes)
    /\ CanUnpack16(WidthBytes)
    /\ CanUnpack16(StartDictSizeBytes)
    /\ CanUnpack32(CompressedSizeBytes)
    /\ CodeCount > 0 => CanUnpack16(CodeBytes(CodeCount - 1))

\* lst[k] raises IndexError unless -len <= k < len; codes are unsigned
InRange(lst, k) == k >= 0 /\ k < Len(lst)
\* dictionary[prev_i] + [dictionary[prev_i][0]]
DecoderSelfEntry(dict, prev) == Append(dict[prev + 1], dict[prev + 1][1])

\* dictionary[prev_i] + [entry[0]]
DecoderEntry(dict, prev, entry) == Append(dict[prev + 1], entry[1])

\* an off-by-one cap test: the decoder stops growing one entry early
DecoderStopsEarly(size, cap) == size + 1 < cap

\* dict_size < self.max_dictionary_size (decompress, line 272)
DecoderMayGrow(size, cap) == size < cap

\* i >= dict_size (line 267)
NotYetDefined(code, size) == code >= size

\* lines 249-260: the header and the code block are parsed
DecompressParse ==
    /\ pc = "decompress"
    /\ IF dec.compressed_data = None
       THEN /\ pc' = "failed" /\ err' = "ValueError"
            /\ UNCHANGED decompress_vars
       ELSE IF ~CanParse
       THEN /\ pc' = "failed" /\ err' = "struct.error"
            /\ UNCHANGED decompress_vars
       ELSE /\ d_height' = Unpack16(HeightBytes)
            /\ d_width' = Unpack16(WidthBytes)
            /\ d_compressed' = [ k \in 1..CodeCount |-> Unpack16(CodeBytes(k - 1)) ]
            /\ pc' = "decompress_first" /\ err' = err
            /\ UNCHANGED << d_dictionary, d_dict_size, d_next, prev_i,
                            decompressed >>
    /\ UNCHANGED << enc, max_dictionary_size, compress_vars, file, dec,
                    matrix, image, decoded, result >>

\* lines 261-265: the seed entries and the first code
DecompressFirst ==
    /\ pc = "decompress_first"
    /\ LET seed == SeedDictionary(StartDict)
       IN  IF d_compressed = << >> \/ ~InRange(seed, d_compressed[1])
           THEN /\ pc' = "failed" /\ err' = "IndexError"
                /\ UNCHANGED << d_dictionary, d_dict_size, d_next, prev_i,
                                decompressed >>
           ELSE /\ d_dictionary' = seed
                /\ d_dict_size' = Len(seed)
                /\ prev_i' = d_compressed[1]
                /\ decompressed' = seed[d_compressed[1] + 1]
                /\ d_next' = 2
                /\ pc' = "decompress_loop" /\ err' = err
    /\ UNCHANGED << enc, max_dictionary_size, compress_vars, file, dec,
                    d_height, d_width, d_compressed, matrix, image, decoded,
                    result >>

\* lines 266-275: one pass of the loop over compressed[1:]
DecompressLoop ==
    /\ pc = "decompress_loop"
    /\ d_next <= Len(d_compressed)
    /\ LET code   == d_compressed[d_next]
           fresh  == NotYetDefined(code, d_dict_size)
           grow   == DecoderMayGrow(d_dict_size, max_dictionary_size)
           raises == IF fresh THEN ~InRange(d_dictionary, prev_i)
                     ELSE grow /\ ~InRange(d_dictionary, prev_i)
           entry  == IF fresh THEN DecoderSelfEntry(d_dictionary, prev_i)
                     ELSE d_dictionary[code + 1]
       IN  IF raises
           THEN /\ pc' = "failed" /\ err' = "IndexError"
                /\ UNCHANGED << d_dictionary, d_dict_size, d_next, prev_i,
                                decompressed >>
           ELSE /\ decompressed' = decompressed \o entry
                /\ d_dictionary' =
                      IF grow
                      THEN Append(d_dictionary,
                                  DecoderEntry(d_dictionary, prev_i, entry))
                      ELSE d_dictionary
                /\ d_dict_size' = IF grow THEN d_dict_size + 1 ELSE d_dict_size
                /\ prev_i' = code
                /\ d_next' = d_next + 1
                /\ pc' = pc /\ err' = err
    /\ UNCHANGED << enc, max_dictionary_size, compress_vars, file, dec,
                    d_height, d_width, d_compressed, matrix, image, decoded,
                    result >>

\* lines 276-278: height, width and raw_data are stored
DecompressFinish ==
    /\ pc = "decompress_loop"
    /\ d_next > Len(d_compressed)
    /\ dec' = [ dec EXCEPT !.height = Some(d_height),
                           !.width = Some(d_width),
                           !.raw_data = Some(decompressed) ]
    /\ pc' = "decompressed"
    /\ UNCHANGED << err, enc, max_dictionary_size, compress_vars, file,
                    decompress_vars, matrix, image, decoded, result >>

\* ----------------------------------------------------------- LZW.to_matrix
\* len(range(0, n, step)) for step > 0
RangeLen(n, step) == (n + step - 1) \div step

\* [raw_data[i : i + width] for i in range(0, len(raw_data), width)];
\* range() raises ValueError for a step of zero
CanToMatrix(wd) == wd # 0
ToMatrix(raw, wd) ==
    [ k \in 1..RangeLen(Len(raw), wd) |->
          Slice(raw, (k - 1) * wd, (k - 1) * wd + wd) ]

\* ---------------------------------------------------------- GrayscaleImage
\* Python list indexing: lst[k] is defined for -len <= k < len, a negative
\* k counting from the end; anything else raises IndexError
ListIndexOk(lst, k) == k >= 0 - Len(lst) /\ k < Len(lst)
ListPos(lst, k) == IF k < 0 THEN Len(lst) + k + 1 ELSE k + 1

\* GrayscaleImage(nrows, ncols): a zero-filled grid
NewImage(nrows, ncols) ==
    [ nrows  |-> nrows,
      ncols  |-> ncols,
      pixels |-> [ r \in 1..nrows |-> [ c \in 1..ncols |-> 0 ] ] ]

\* self._pixels[index[0]][index[1]] can be evaluated
ItemOk(img, row, col) ==
    /\ ListIndexOk(img.pixels, row)
    /\ ListIndexOk(img.pixels[ListPos(img.pixels, row)], col)

\* __getitem__: self._pixels[index[0]][index[1]]
GetItemValue(img, row, col) ==
    LET r == ListPos(img.pixels, row)
    IN  img.pixels[r][ListPos(img.pixels[r], col)]

\* __setitem__: self._pixels[index[0]][index[1]] = value
SetItemImage(img, row, col, value) ==
    LET r == ListPos(img.pixels, row)
    IN  [ img EXCEPT !.pixels[r][ListPos(img.pixels[r], col)] = value ]

\* clear: every cell of an nrows x ncols grid is value
ClearImage(img, value) ==
    [ img EXCEPT !.pixels =
        [ r \in 1..img.nrows |-> [ c \in 1..img.ncols |-> value ] ] ]

\* from_matrix: len(matrix[0]) raises IndexError for an empty matrix, and
\* matrix[row][col] raises it for a row shorter than the first one; the
\* cells of a longer row beyond ncols are never read
CanFromMatrix(m) ==
    /\ Len(m) > 0
    /\ \A r \in 1..Len(m) : Len(m[r]) >= Len(m[1])

FromMatrixImage(m) ==
    [ nrows  |-> Len(m),
      ncols  |-> Len(m[1]),
      pixels |-> [ r \in 1..Len(m) |-> [ c \in 1..Len(m[1]) |-> m[r][c] ] ] ]

\* lzw_decompression, lines 138-140: the guard, to_matrix, from_matrix
LzwDecompressionBuild ==
    /\ pc = "decompressed"
    /\ IF dec.raw_data = None \/ ~CanToMatrix(dec.width[1])
       THEN /\ pc' = "failed" /\ err' = "ValueError"
            /\ UNCHANGED << matrix, decoded >>
       ELSE LET m == ToMatrix(dec.raw_data[1], dec.width[1])
            IN  /\ matrix' = m
                /\ IF CanFromMatrix(m)
                   THEN /\ decoded' = Some(FromMatrixImage(m))
                        /\ pc' = "done" /\ err' = err
                   ELSE /\ decoded' = decoded
                        /\ pc' = "failed" /\ err' = "IndexError"
    /\ UNCHANGED << enc, max_dictionary_size, compress_vars, file, dec,
                    decompress_vars, image, result >>

\* -------------------------------------------------- codec specification
\* images of height h >= 1 and width w >= 1 with h * w <= MaxLen
Shapes ==
    { hw \in (1..MaxLen) \X (1..MaxLen) : hw[1] * hw[2] <= MaxLen }

ImagesOf(h, w) ==
    { [ nrows |-> h, ncols |-> w, pixels |-> px ] :
        px \in [ 1..h -> [ 1..w -> Pixels ] ] }

\* the cap of the source, and small caps that the inputs explored can
\* reach; no cap is below the size of a start dictionary (at most 256
\* values in the source, at most MaxPixel + 1 here)
Caps == ((MaxPixel + 1)..MaxCap) \cup { DictionaryCap }

Idle ==
    /\ err = ""
    /\ start_dictionary = << >> /\ dictionary = << >> /\ dict_size = 0
    /\ i = 0 /\ compressed = << >>
    /\ file = << >>
    /\ d_height = 0 /\ d_width = 0 /\ d_compressed = << >>
    /\ d_dictionary = << >> /\ d_dict_size = 0 /\ d_next = 0 /\ prev_i = 0
    /\ decompressed = << >>
    /\ matrix = << >>
    /\ decoded = None
    /\ result = Outcome("none", 0, 0, 0, << >>, "ok", FALSE)

\* lzw_compression, line 114: LZW(self._pixels, None) on an image
Init ==
    /\ \E hw \in Shapes : image \in ImagesOf(hw[1], hw[2])
    /\ enc = LZWFromRaw(image.pixels)
    /\ dec = LZWFromCompressed(<< >>)
    /\ max_dictionary_size \in Caps
    /\ pc = "compress"
    /\ Idle

NextDecompress ==
    \/ DecompressParse
    \/ DecompressFirst
    \/ DecompressLoop
    \/ DecompressFinish
    \/ LzwDecompressionBuild

NextCompress ==
    \/ CompressBegin
    \/ CompressLoop
    \/ CompressSerialize

Next ==
    \/ NextCompress
    \/ LzwCompressionWrite
    \/ LzwDecompressionRead
    \/ NextDecompress

Spec == Init /\ [][Next]_vars

\* compress() reads the image only through its flattened sequence: the
\* single-row images give every sequence of up to MaxLen pixels
InitCompress ==
    /\ \E n \in 1..MaxLen : image \in ImagesOf(1, n)
    /\ enc = LZWFromRaw(image.pixels)
    /\ dec = LZWFromCompressed(<< >>)
    /\ max_dictionary_size \in Caps
    /\ pc = "compress"
    /\ Idle

\* one call of compress(), which runs to completion: a step that can be
\* taken is taken
CompressSpec ==
    InitCompress /\ [][NextCompress]_vars /\ WF_vars(NextCompress)

\* ------------------------------------------------------------- properties
IsPrefix(p, q) == Len(p) <= Len(q) /\ SubSeq(q, 1, Len(p)) = p

\* the symbols the codes stand for, in the encoder's dictionary
RECURSIVE Expand(_, _)
Expand(dict, codes) ==
    IF codes = << >> THEN << >>
    ELSE dict[Head(codes) + 1] \o Expand(dict, Tail(codes))

CompressOver == pc \in { "compressed", "written", "decompress",
                         "decompress_first", "decompress_loop",
                         "decompressed", "done" }

\* the encoder was refused an entry: every code but the last one asks for one
Overflowed ==
    Len(compressed) - 1 > Len(dictionary) - Len(start_dictionary)

C2_DictionaryCap ==
    /\ [](/\ Len(dictionary) = dict_size
          /\ Len(d_dictionary) = d_dict_size
          /\ dict_size <= max_dictionary_size
          /\ d_dict_size <= max_dictionary_size
          /\ (CompressOver /\ Overflowed) => dict_size = max_dictionary_size
          /\ (pc \in { "decompressed", "done" } /\ Overflowed) =>
                /\ d_dict_size = max_dictionary_size
                /\ d_dictionary = dictionary
                /\ dec.raw_data = enc.raw_data)
    /\ [][/\ IsPrefix(dictionary, dictionary')
          /\ IsPrefix(d_dictionary, d_dictionary')]_vars

\* the encoder was refused an entry at a cap above the start dictionary's
\* size, and the stream has been decoded
C2_Witness ==
    /\ pc = "decompressed"
    /\ Overflowed
    /\ max_dictionary_size = MaxCap
    /\ Len(start_dictionary) < MaxCap

\* C7: every pass of the main loop moves the cursor forward and emits one
\* code, so there are never more codes than symbols consumed, the loop is
\* left, and the code block holds at most 2 * N bytes.
C7_CompressTerminates ==
    /\ [][pc = "compress_loop" /\ pc' = "compress_loop" =>
             /\ i' > i
             /\ i' <= N
             /\ Len(compressed') = Len(compressed) + 1]_vars
    /\ [](/\ Len(compressed) <= i
          /\ i <= N
          /\ CompressOver => /\ Len(compressed) <= N
                             /\ Len(PackCodes(compressed)) <= 2 * N)
    /\ <>(pc \notin { "compress", "compress_loop" })

\* no compression at all: as many codes as symbols
C7_Witness ==
    /\ pc = "compressed"
    /\ N >= 2
    /\ Len(compressed) = N

Suffix == Slice(Raw, i, N)

PrefixClosed(dict) ==
    \A j \in 1..Len(dict) :
        Len(dict[j]) > 1 => Contains(dict, SubSeq(dict[j], 1, Len(dict[j]) - 1))

NoDuplicates(dict) ==
    \A j, k \in 1..Len(dict) : j # k => dict[j] # dict[k]

\* C8: at every pass of the compress loop the code found is that of the
\* longest dictionary entry that is a prefix of S[i:], and the dictionary is
\* prefix-closed and holds no entry twice.
C8_LongestPrefix ==
    /\ PrefixClosed(dictionary)
    /\ NoDuplicates(dictionary)
    /\ (pc = "compress_loop" /\ i < N) =>
          LET id == FindLongestPrefix(dictionary, Suffix)
          IN  /\ id >= 0 /\ id < Len(dictionary)
              /\ IsPrefix(dictionary[id + 1], Suffix)
              /\ \A j \in 1..Len(dictionary) :
                    IsPrefix(dictionary[j], Suffix) =>
                       Len(dictionary[j]) <= Len(dictionary[id + 1])

\* the candidate grew to two symbols and backed off at the third, in a
\* dictionary that also holds a shorter matching entry
C8_Witness ==
    /\ pc = "compress_loop" /\ i + 2 < N
    /\ Len(dictionary) >= 4
    /\ Len(dictionary[FindLongestPrefix(dictionary, Suffix) + 1]) = 2
    /\ Contains(dictionary, SubSeq(Suffix, 1, 1))

NextCode == d_compressed[d_next]

\* C9: decoding a stream produced by compress, every code after the first
\* is at most the decoder's dictionary size, and a code equal to it stands
\* for previous_entry + [previous_entry[0]], the entry the encoder holds.
C9_NotYetDefined ==
    (pc = "decompress_loop" /\ d_next <= Len(d_compressed)) =>
        /\ NextCode <= d_dict_size
        /\ NextCode = d_dict_size =>
              /\ InRange(d_dictionary, prev_i)
              /\ InRange(dictionary, NextCode)
              /\ DecoderSelfEntry(d_dictionary, prev_i) = dictionary[NextCode + 1]

\* past its second code, the decoder is about to read a code it has not
\* defined yet
C9_Witness ==
    /\ pc = "decompress_loop" /\ d_next <= Len(d_compressed)
    /\ d_next >= 3
    /\ NextCode = d_dict_size
    /\ Len(start_dictionary) = 2

\* C10: at every pass of the compress loop the single symbol S[i] is an
\* entry, the search returns the code of an entry of at least one symbol,
\* the break is never taken, and the codes emitted cover all N symbols.
C10_NoCompressionFailure ==
    /\ pc # "compress_break"
    /\ pc # "failed"
    /\ (pc = "compress_loop" /\ i < N) =>
          LET id == FindLongestPrefix(dictionary, Suffix)
          IN  /\ Contains(dictionary, << Raw[i + 1] >>)
              /\ id >= 0 /\ id < Len(dictionary)
              /\ Len(dictionary[id + 1]) >= 1
    /\ CompressOver => i = N /\ Expand(dictionary, compressed) = Raw

\* the loop is in mid-input with a start dictionary of every pixel value
C10_Witness ==
    /\ pc = "compress_loop"
    /\ i > 0 /\ i < N
    /\ Len(start_dictionary) = MaxPixel + 1
    /\ Raw[i + 1] # Raw[1]

\* --------------------------------------- decompression of arbitrary files
\* sequences of at most n elements of S
SeqsUpTo(S, n) == UNION { [ 1..k -> S ] : k \in 0..n }

\* the layout of the stream with every field given
StreamBytes(h, w, s, start, c, codes) ==
    Pack16(h) \o Pack16(w) \o Pack16(s) \o start \o Pack32(c)
      \o PackCodes(codes)

\* the stream of these fields, and the streams that differ from it in one
\* way: cut short at any byte, followed by one more byte, with a start
\* dictionary length that is off by one, with a code block length that is
\* off by one or two
StreamsOf(h, w, start, codes) ==
    LET s == Len(start)
        c == 2 * Len(codes)
        full == StreamBytes(h, w, s, start, c, codes)
    IN  { full }
          \cup { SubSeq(full, 1, n) : n \in 0..(Len(full) - 1) }
          \cup { Append(full, 0) }
          \cup { StreamBytes(h, w, s2, start, c, codes) :
                    s2 \in { x \in { s - 1, s + 1 } : x >= 0 } }
          \cup { StreamBytes(h, w, s, start, c2, codes) :
                    c2 \in { x \in { c - 2, c - 1, c + 1, c + 2 } : x >= 0 } }

\* lzw_decompression on the bytes of any file, lines 134-136
InitStream ==
    /\ \E h \in 1..MaxDim, w \in 0..MaxDim :
       \E start \in SeqsUpTo(Pixels, MaxPixel + 1) :
       \E codes \in SeqsUpTo(0..MaxCode, MaxCodes) :
          \E data \in StreamsOf(h, w, start, codes) :
             dec = LZWFromCompressed(data)
    /\ enc = LZWFromCompressed(<< >>)
    /\ image = NewImage(0, 0)
    /\ max_dictionary_size = DictionaryCap
    /\ pc = "decompress"
    /\ Idle

StreamSpec == InitStream /\ [][NextDecompress]_vars

\* ------------------------------------------- GrayscaleImage operations
Coords == (0 - MaxDim - 1)..(MaxDim + 1)

Matrices == SeqsUpTo(SeqsUpTo(Pixels, MaxDim), MaxDim)

image_others == << pc, err, enc, max_dictionary_size, compress_vars, file,
                   dec, decompress_vars, matrix, decoded >>

\* clear(value)
Clear ==
    /\ pc = "image"
    /\ \E value \in Pixels :
          /\ image' = ClearImage(image, value)
          /\ result' = Outcome("clear", 0, 0, value, << >>, "ok",
                               image' # image)
    /\ UNCHANGED image_others

\* image[row, col]
GetItem ==
    /\ pc = "image"
    /\ \E row \in Coords, col \in Coords :
          result' =
             IF ItemOk(image, row, col)
             THEN Outcome("get", row, col, GetItemValue(image, row, col),
                          << >>, "ok", FALSE)
             ELSE Outcome("get", row, col, 0, << >>, "IndexError", FALSE)
    /\ UNCHANGED image
    /\ UNCHANGED image_others

\* image[row, col] = value
SetItem ==
    /\ pc = "image"
    /\ \E row \in Coords, col \in Coords, value \in Pixels :
          IF ItemOk(image, row, col)
          THEN /\ image' = SetItemImage(image, row, col, value)
               /\ result' = Outcome("set", row, col, value, << >>, "ok",
                                    image' # image)
          ELSE /\ image' = image
               /\ result' = Outcome("set", row, col, value, << >>,
                                    "IndexError", FALSE)
    /\ UNCHANGED image_others

\* GrayscaleImage.from_matrix(matrix)
FromMatrix ==
    /\ pc = "image"
    /\ \E m \in Matrices :
          IF CanFromMatrix(m)
          THEN /\ image' = FromMatrixImage(m)
               /\ result' = Outcome("from_matrix", 0, 0, 0, m, "ok",
                                    image' # image)
          ELSE /\ image' = image
               /\ result' = Outcome("from_matrix", 0, 0, 0, m,
                                    "IndexError", FALSE)
    /\ UNCHANGED image_others

\* GrayscaleImage(nrows, ncols)
InitImage ==
    /\ \E nrows \in 1..MaxDim, ncols \in 1..MaxDim :
          image = NewImage(nrows, ncols)
    /\ enc = LZWFromCompressed(<< >>)
    /\ dec = LZWFromCompressed(<< >>)
    /\ max_dictionary_size = DictionaryCap
    /\ pc = "image"
    /\ Idle

NextImage ==
    \/ Clear
    \/ GetItem
    \/ SetItem
    \/ FromMatrix

ImageSpec == InitImage /\ [][NextImage]_vars

\* C3: no pixel sequence comes out of a stream that is truncated, whose
\* start-dictionary length disagrees with the bytes available, whose length
\* differs from the 10 + S + C bytes its header declares, or whose code
\* block is empty.
C3_MalformedStreamFails ==
    dec.raw_data # None =>
        /\ CanUnpack16(StartDictSizeBytes)
        /\ Len(StartDict) = StartDictSize
        /\ CanUnpack32(CompressedSizeBytes)
        /\ CompressedSize > 0
        /\ Len(Data) = 10 + StartDictSize + CompressedSize

\* C4: a get or a set at a position outside [0, h) x [0, w) fails with an
\* out-of-bounds error, and a failed set changes no pixel.
C4_OutOfBoundsFails ==
    (/\ result.op \in { "get", "set" }
     /\ ~(/\ result.row >= 0 /\ result.row < image.nrows
          /\ result.col >= 0 /\ result.col < image.ncols)) =>
        /\ result.status = "IndexError"
        /\ ~result.changed

\* C5: from_matrix returns an image for a non-empty matrix of equal-length
\* rows and fails for every other matrix.
C5_FromMatrixDimensions ==
    result.op = "from_matrix" =>
        (result.status = "ok" <=>
            /\ Len(result.arg) > 0
            /\ \A r \in 1..Len(result.arg) :
                  Len(result.arg[r]) = Len(result.arg[1]))

\* C6: a pixel sequence that decompress produces has height * width
\* elements, and to_matrix shapes it into height rows of width symbols.
C6_DecodedShape ==
    /\ dec.raw_data # None =>
          Len(dec.raw_data[1]) = dec.height[1] * dec.width[1]
    /\ pc = "done" =>
          /\ Len(matrix) = dec.height[1]
          /\ \A r \in 1..Len(matrix) : Len(matrix[r]) = dec.width[1]

=============================================================================
